---- MODULE Spec2Model ----
(***************************************************************************)
(* Model of the video ingestion pipeline of the tubely server:             *)
(* handlerUploadVideo (three versions of the file are in the repository),  *)
(* getVideoAspectRatio, processVideoForFastStart, generatePresignedURL and *)
(* dbVideoToSignedVideo.                                                   *)
(*                                                                         *)
(* Strings are sequences of one-character strings, so that formatting      *)
(* (fmt.Sprintf), encoding (base64) and parsing (strings.SplitN) are       *)
(* computed and not assumed.  float64 values are 53-bit mantissas with an  *)
(* exponent, and every float64 operation rounds to nearest, ties to even.  *)
(***************************************************************************)
EXTENDS Integers, Sequences, FiniteSets, TLC

(***************************************************************************)
(* Bit strings (most significant bit first) and float64 arithmetic.        *)
(***************************************************************************)

\* Number of significand bits of a float64 (IEEE 754 binary64).
MantissaBits == 53

\* Bit strings are added, subtracted and multiplied in limbs of LimbBits bits,
\* so that no intermediate value leaves the 32-bit integers.
LimbBits == 13
LimbBase == 8192

Max(i, j) == IF i > j THEN i ELSE j
Min(i, j) == IF i < j THEN i ELSE j

RECURSIVE Pow2(_)
Pow2(k) == IF k = 0 THEN 1 ELSE 2 * Pow2(k - 1)

Zeros(n) == [i \in 1..n |-> 0]

RECURSIVE BitsOfNat(_)
\* The binary digits of a natural number, without leading zeros (0 is <<>>).
BitsOfNat(n) == IF n = 0 THEN <<>> ELSE BitsOfNat(n \div 2) \o <<n % 2>>

\* b without its leading zeros.
StripZeros(b) ==
    IF \A i \in 1..Len(b) : b[i] = 0 THEN <<>>
    ELSE LET first == CHOOSE i \in 1..Len(b) : b[i] = 1 /\ \A j \in 1..(i - 1) : b[j] = 0
         IN  SubSeq(b, first, Len(b))

\* b padded on the left with zeros to n bits.
PadLeft(b, n) == Zeros(n - Len(b)) \o b

\* The value of a bit string of LimbBits bits.
LimbVal(c) ==
    c[1] * 4096 + c[2] * 2048 + c[3] * 1024 + c[4] * 512 + c[5] * 256 + c[6] * 128
    + c[7] * 64 + c[8] * 32 + c[9] * 16 + c[10] * 8 + c[11] * 4 + c[12] * 2 + c[13]

\* A bit string as limbs, most significant first.
ToLimbs(b) ==
    LET n == (Len(b) + LimbBits - 1) \div LimbBits
        p == PadLeft(b, n * LimbBits)
    IN  [j \in 1..n |-> LimbVal(SubSeq(p, LimbBits * (j - 1) + 1, LimbBits * j))]

\* Limbs as a bit string of LimbBits bits each.
FromLimbs(l) ==
    [i \in 1..(LimbBits * Len(l)) |->
        (l[(i - 1) \div LimbBits + 1] \div Pow2(LimbBits - 1 - ((i - 1) % LimbBits))) % 2]

RECURSIVE AddLimbs(_, _, _)
\* a + b + c for limb strings of equal length; the result is one limb longer.
AddLimbs(a, b, c) ==
    IF a = <<>> THEN <<c>>
    ELSE LET n == Len(a)
             s == a[n] + b[n] + c
         IN  IF s >= LimbBase
             THEN AddLimbs(SubSeq(a, 1, n - 1), SubSeq(b, 1, n - 1), 1) \o <<s - LimbBase>>
             ELSE AddLimbs(SubSeq(a, 1, n - 1), SubSeq(b, 1, n - 1), 0) \o <<s>>

RECURSIVE SubLimbs(_, _, _)
\* a - b - c for limb strings of equal length with a >= b + c.
SubLimbs(a, b, c) ==
    IF a = <<>> THEN <<>>
    ELSE LET n == Len(a)
             d == a[n] - b[n] - c
         IN  IF d < 0
             THEN SubLimbs(SubSeq(a, 1, n - 1), SubSeq(b, 1, n - 1), 1) \o <<d + LimbBase>>
             ELSE SubLimbs(SubSeq(a, 1, n - 1), SubSeq(b, 1, n - 1), 0) \o <<d>>

RECURSIVE ColumnSum(_, _, _, _)
\* The sum of a[i] * b[k - i] over the i from lo on that index both.
ColumnSum(a, b, k, lo) ==
    IF lo > Len(a) THEN 0
    ELSE (IF k - lo >= 1 /\ k - lo <= Len(b) THEN a[lo] * b[k - lo] ELSE 0)
         + ColumnSum(a, b, k, lo + 1)

RECURSIVE Carry(_, _)
\* Column sums (most significant first) brought into limbs, c carried in.
Carry(cols, c) ==
    IF cols = <<>> THEN IF c = 0 THEN <<>> ELSE Carry(<<c>>, 0)
    ELSE LET n == Len(cols)
             s == cols[n] + c
         IN  IF s >= LimbBase
             THEN Carry(SubSeq(cols, 1, n - 1), s \div LimbBase) \o <<s % LimbBase>>
             ELSE Carry(SubSeq(cols, 1, n - 1), 0) \o <<s>>

\* a + b for bit strings of equal length.
AddBits(a, b) == FromLimbs(AddLimbs(ToLimbs(a), ToLimbs(b), 0))

\* a - b for bit strings of equal length with a >= b.
SubBits(a, b) == FromLimbs(SubLimbs(ToLimbs(a), ToLimbs(b), 0))

\* The exact product of two bit strings.
MulBits(a, b) ==
    LET la == ToLimbs(a)
        lb == ToLimbs(b)
    IN  FromLimbs(Carry([k \in 1..(Len(la) + Len(lb) - 1) |-> ColumnSum(la, lb, k + 1, 1)], 0))

\* a < b for bit strings of equal length.
LessBits(a, b) ==
    \E i \in 1..Len(a) : a[i] < b[i] /\ \A j \in 1..(i - 1) : a[j] = b[j]

\* b + 1.
IncBits(b) == StripZeros(AddBits(b, Zeros(Len(b) - 1) \o <<1>>))

\* A float64 that is zero or positive: the value m * 2^x, m a bit string of
\* MantissaBits bits whose first bit is 1; zero has the empty bit string.
FZero == [m |-> <<>>, x |-> 0]

\* Round the exact value (bits * 2^x, plus something in (0, 2^x) when sticky) to
\* a float64: to nearest, ties to even.
RoundToFloat(bits, x, sticky) ==
    LET b == StripZeros(bits)
        n == Len(b)
    IN  IF n = 0 THEN FZero
        ELSE IF n <= MantissaBits
        THEN [m |-> b \o Zeros(MantissaBits - n), x |-> x - (MantissaBits - n)]
        ELSE LET keep  == SubSeq(b, 1, MantissaBits)
                 guard == b[MantissaBits + 1]
                 rest  == sticky \/ \E i \in (MantissaBits + 2)..n : b[i] = 1
                 up    == guard = 1 /\ (rest \/ keep[MantissaBits] = 1)
                 x1    == x + (n - MantissaBits)
                 r     == IF up THEN IncBits(keep) ELSE keep
             IN  IF Len(r) > MantissaBits
                 THEN [m |-> SubSeq(r, 1, MantissaBits), x |-> x1 + 1]
                 ELSE [m |-> r, x |-> x1]

\* Limbs of the quotient computed past the binary point by FDiv.
FractionLimbs == 6

RECURSIVE QuotientLimbs(_, _, _)
\* Long division past the binary point: n more limbs of the quotient, and the
\* remainder then; <<limbs, remainder>>.
QuotientLimbs(rem, h, n) ==
    IF n = 0 THEN <<<<>>, rem>>
    ELSE LET q == QuotientLimbs((rem * LimbBase) % h, h, n - 1)
         IN  <<<<(rem * LimbBase) \div h>> \o q[1], q[2]>>

\* float64(w) / float64(h) for integers w >= 0, h > 0 that convert exactly.
FDiv(w, h) ==
    LET q == QuotientLimbs(w % h, h, FractionLimbs)
    IN  RoundToFloat(BitsOfNat(w \div h) \o FromLimbs(q[1]),
                     0 - LimbBits * FractionLimbs, q[2] # 0)

\* The two operands as bit strings of one length over a common exponent.
Aligned(a, b) ==
    LET x  == Min(a.x, b.x)
        am == a.m \o Zeros(a.x - x)
        bm == b.m \o Zeros(b.x - x)
        n  == Max(Len(am), Len(bm))
    IN  [a |-> PadLeft(am, n), b |-> PadLeft(bm, n), x |-> x]

\* math.Abs(a - b) for a, b >= 0: the subtraction rounds, and Abs is exact.
FAbsSub(a, b) ==
    LET al == Aligned(a, b)
    IN  IF al.a = al.b THEN FZero
        ELSE IF LessBits(al.a, al.b)
        THEN RoundToFloat(SubBits(al.b, al.a), al.x, FALSE)
        ELSE RoundToFloat(SubBits(al.a, al.b), al.x, FALSE)

\* math.Abs(-a - b) for a, b >= 0, which is a + b rounded.
FAbsNegSub(a, b) ==
    LET al == Aligned(a, b) IN RoundToFloat(AddBits(al.a, al.b), al.x, FALSE)

\* a * b.
FMul(a, b) ==
    IF a.m = <<>> \/ b.m = <<>> THEN FZero
    ELSE RoundToFloat(MulBits(a.m, b.m), a.x + b.x, FALSE)

\* a <= b.
FLessEq(a, b) ==
    LET al == Aligned(a, b) IN ~LessBits(al.b, al.a)

(***************************************************************************)
(* getVideoAspectRatio: the first video stream and its classification.     *)
(***************************************************************************)

landscape == <<"l", "a", "n", "d", "s", "c", "a", "p", "e">>
portrait  == <<"p", "o", "r", "t", "r", "a", "i", "t">>
other     == <<"o", "t", "h", "e", "r">>

\* const tolerance = 0.05, converted to float64 where it is used.
tolerance == FDiv(1, 20)
\* landscapeTarget := 16.0 / 9.0
landscapeTarget == FDiv(16, 9)
\* portraitTarget := 9.0 / 16.0
portraitTarget == FDiv(9, 16)
landscapeBand == FMul(landscapeTarget, tolerance)
portraitBand == FMul(portraitTarget, tolerance)

Abs(i) == IF i < 0 THEN 0 - i ELSE i

\* math.Abs(ratio - target) for ratio := float64(width) / float64(height).
RatioDistance(width, height, target) ==
    LET magnitude == FDiv(Abs(width), Abs(height))
    IN  IF (width < 0) # (height < 0) THEN FAbsNegSub(magnitude, target)
        ELSE FAbsSub(magnitude, target)

\* The switch of getVideoAspectRatio, for width and height both non-zero.
ClassifyRatio(width, height) ==
    IF FLessEq(RatioDistance(width, height, landscapeTarget), landscapeBand) THEN landscape
    ELSE IF FLessEq(RatioDistance(width, height, portraitTarget), portraitBand) THEN portrait
    ELSE other

\* The last video stream instead of the first.
LastVideoStream(streams) ==
    IF \E i \in 1..Len(streams) : streams[i].codec_type = "video"
    THEN LET i == CHOOSE k \in 1..Len(streams) :
                      /\ streams[k].codec_type = "video"
                      /\ \A j \in (k + 1)..Len(streams) : streams[j].codec_type # "video"
         IN  [width |-> streams[i].width, height |-> streams[i].height]
    ELSE [width |-> 0, height |-> 0]

\* The first stream of the ffprobe output whose codec_type is "video"; the
\* zero geometry when there is none.
FirstVideoStream(streams) ==
    IF \E i \in 1..Len(streams) : streams[i].codec_type = "video"
    THEN LET i == CHOOSE k \in 1..Len(streams) :
                      /\ streams[k].codec_type = "video"
                      /\ \A j \in 1..(k - 1) : streams[j].codec_type # "video"
         IN  [width |-> streams[i].width, height |-> streams[i].height]
    ELSE [width |-> 0, height |-> 0]

\* getVideoAspectRatio on what running ffprobe gave: run says whether cmd.Run
\* succeeded, json whether its output unmarshals, streams what it lists.
getVideoAspectRatio(probe) ==
    IF ~probe.run THEN [err |-> "ffprobe failed", aspect |-> <<>>]
    ELSE IF ~probe.json THEN [err |-> "failed to parse ffprobe output", aspect |-> <<>>]
    ELSE LET v == FirstVideoStream(probe.streams)
         IN  IF v.width = 0 \/ v.height = 0
             THEN [err |-> "no video stream found", aspect |-> <<>>]
             ELSE [err |-> "", aspect |-> ClassifyRatio(v.width, v.height)]

(***************************************************************************)
(* Strings, the key, the locator and the signed URL.                       *)
(***************************************************************************)

\* The alphabet of base64.URLEncoding: A-Z a-z 0-9 - _
Alphabet ==
    <<"A", "B", "C", "D", "E", "F", "G", "H", "I", "J", "K", "L", "M",
      "N", "O", "P", "Q", "R", "S", "T", "U", "V", "W", "X", "Y", "Z",
      "a", "b", "c", "d", "e", "f", "g", "h", "i", "j", "k", "l", "m",
      "n", "o", "p", "q", "r", "s", "t", "u", "v", "w", "x", "y", "z",
      "0", "1", "2", "3", "4", "5", "6", "7", "8", "9", "-", "_">>

\* Bit i (from 1, most significant first) of a byte string; 0 past its end.
BitOfBytes(bytes, i) ==
    IF i > 8 * Len(bytes) THEN 0
    ELSE (bytes[(i - 1) \div 8 + 1] \div Pow2(7 - ((i - 1) % 8))) % 2

\* base64.RawURLEncoding.EncodeToString: six bits a character, the last
\* character filled with zero bits, no padding characters.
EncodeToString(bytes) ==
    [j \in 1..((8 * Len(bytes) + 5) \div 6) |->
        LET b(k) == BitOfBytes(bytes, 6 * (j - 1) + k)
        IN  Alphabet[1 + 32 * b(1) + 16 * b(2) + 8 * b(3) + 4 * b(4) + 2 * b(5) + b(6)]]

\* The index of the first element of s that is c; 0 when there is none.
IndexOf(s, c) ==
    IF \E i \in 1..Len(s) : s[i] = c
    THEN CHOOSE i \in 1..Len(s) : s[i] = c /\ \A j \in 1..(i - 1) : s[j] # c
    ELSE 0

\* SplitN2 cutting at the last separator, not the first.
SplitAtLast(s, sep) ==
    LET found == {i \in 1..Len(s) : s[i] = sep}
        i     == IF found = {} THEN 0 ELSE CHOOSE k \in found : \A j \in found : j <= k
    IN  IF i = 0 THEN <<s>> ELSE <<SubSeq(s, 1, i - 1), SubSeq(s, i + 1, Len(s))>>

\* strings.SplitN(s, sep, 2) for a separator of one character.
SplitN2(s, sep) ==
    LET i == IndexOf(s, sep)
    IN  IF i = 0 THEN <<s>> ELSE <<SubSeq(s, 1, i - 1), SubSeq(s, i + 1, Len(s))>>

\* A *string: nil, or a pointer to a string.
Nil == <<>>
Ptr(s) == <<s>>

\* cfg.s3Bucket and cfg.s3Region, as configured.
s3Bucket == <<"t", "u", "b", "e", "l", "y">>
s3Region == <<"e", "u">>

mp4Ext == <<".", "m", "p", "4">>

\* len(randomBytes)
RandomLen == 32

\* AspectKey without the directory of the aspect.
AspectKeyWithoutClass(aspect, randomBytes) == EncodeToString(randomBytes) \o mp4Ext

\* fmt.Sprintf("%s/%s.mp4", aspect, baseName) of the encoded random bytes.
AspectKey(aspect, randomBytes) ==
    aspect \o <<"/">> \o EncodeToString(randomBytes) \o mp4Ext

\* base64.RawURLEncoding.EncodeToString(randomBytes) + ".mp4"
FlatKey(randomBytes) == EncodeToString(randomBytes) \o mp4Ext

\* fmt.Sprintf("%s,%s", cfg.s3Bucket, objectKey)
Locator(bucket, key) == bucket \o <<",">> \o key

\* fmt.Sprintf("https://%s.s3.%s.amazonaws.com/%s", cfg.s3Bucket, cfg.s3Region, objectKey)
PublicURL(bucket, region, key) ==
    <<"h", "t", "t", "p", "s", ":", "/", "/">> \o bucket \o <<".", "s", "3", ".">> \o region
        \o <<".", "a", "m", "a", "z", "o", "n", "a", "w", "s", ".", "c", "o", "m", "/">> \o key

\* 15*time.Minute, in seconds.
SignedURLExpiry == 15 * 60

RECURSIVE Decimal(_)
Decimal(n) ==
    IF n < 10 THEN <<Alphabet[53 + n]>> ELSE Decimal(n \div 10) \o <<Alphabet[53 + (n % 10)]>>

ExpiresParam == <<"?", "X", "-", "A", "m", "z", "-", "E", "x", "p", "i", "r", "e", "s", "=">>
SignatureParam == <<"&", "X", "-", "A", "m", "z", "-", "S", "i", "g", "n", "a", "t", "u", "r", "e", "=">>

\* The URL that presignClient.PresignGetObject returns when it succeeds: it
\* names the bucket, the key and the expiry it was asked for, and is signed.
PresignedURL(bucket, key, expireTime) ==
    <<"h", "t", "t", "p", "s", ":", "/", "/">> \o bucket \o <<".", "s", "3", "/">> \o key
        \o ExpiresParam \o Decimal(expireTime) \o SignatureParam \o <<"s", "i", "g">>

\* generatePresignedURL: ok says whether the presign client succeeded.
generatePresignedURL(ok, bucket, key, expireTime) ==
    IF ok THEN [err |-> FALSE, url |-> PresignedURL(bucket, key, expireTime)]
    ELSE [err |-> TRUE, url |-> <<>>]

\* dbVideoToSignedVideo without the test for the empty string: only a nil
\* locator counts as absent.
dbVideoToSignedVideoNilOnly(video, presignOK) ==
    IF video.VideoURL = Nil
    THEN [video |-> video, err |-> FALSE, presigned |-> <<>>]
    ELSE LET parts == SplitN2(video.VideoURL[1], ",")
         IN  IF Len(parts) # 2
             THEN [video |-> video, err |-> TRUE, presigned |-> <<>>]
             ELSE LET signed == generatePresignedURL(presignOK, parts[1], parts[2], SignedURLExpiry)
                      call   == [bucket |-> parts[1], key |-> parts[2], expires |-> SignedURLExpiry]
                  IN  IF signed.err
                      THEN [video |-> video, err |-> TRUE, presigned |-> <<call>>]
                      ELSE [video |-> [video EXCEPT !.VideoURL = Ptr(signed.url)],
                            err |-> FALSE, presigned |-> <<call>>]

\* dbVideoToSignedVideo: the video returned, whether an error is returned, and
\* the presign requests made.  presignOK says whether the presign client succeeds.
dbVideoToSignedVideo(video, presignOK) ==
    IF video.VideoURL = Nil \/ video.VideoURL = Ptr(<<>>)
    THEN [video |-> [video EXCEPT !.VideoURL = Nil], err |-> FALSE, presigned |-> <<>>]
    ELSE LET parts == SplitN2(video.VideoURL[1], ",")
         IN  IF Len(parts) # 2
             THEN [video |-> video, err |-> TRUE, presigned |-> <<>>]
             ELSE LET signed == generatePresignedURL(presignOK, parts[1], parts[2], SignedURLExpiry)
                      call   == [bucket |-> parts[1], key |-> parts[2], expires |-> SignedURLExpiry]
                  IN  IF signed.err
                      THEN [video |-> video, err |-> TRUE, presigned |-> <<call>>]
                      ELSE [video |-> [video EXCEPT !.VideoURL = Ptr(signed.url)],
                            err |-> FALSE, presigned |-> <<call>>]

(***************************************************************************)
(* mime.ParseMediaType, as far as the handler uses it: the media type in   *)
(* lower case without its parameters, or an error.                         *)
(***************************************************************************)

ToLower(c) ==
    LET i == IndexOf(SubSeq(Alphabet, 1, 26), c)
    IN  IF i = 0 THEN c ELSE Alphabet[26 + i]

\* s without the spaces at its two ends.
TrimSpace(s) ==
    IF \A i \in 1..Len(s) : s[i] = " " THEN <<>>
    ELSE LET first == CHOOSE i \in 1..Len(s) : s[i] # " " /\ \A j \in 1..(i - 1) : s[j] = " "
             last  == CHOOSE i \in 1..Len(s) : s[i] # " " /\ \A j \in (i + 1)..Len(s) : s[j] = " "
         IN  SubSeq(s, first, last)

\* A token: not empty, and without a space, a slash, a semicolon or an equals sign.
IsToken(s) == s # <<>> /\ \A i \in 1..Len(s) : s[i] \notin {" ", "/", ";", "="}

\* checkMediaTypeDisposition: a token, or token "/" token.
ValidMediaType(s) ==
    LET parts == SplitN2(s, "/")
    IN  IF Len(parts) = 1 THEN IsToken(s) ELSE IsToken(parts[1]) /\ IsToken(parts[2])

\* One parameter list: empty, or attribute=value pairs separated by semicolons.
RECURSIVE ValidParams(_)
ValidParams(s) ==
    IF TrimSpace(s) = <<>> THEN TRUE
    ELSE LET parts == SplitN2(s, ";")
             pair  == SplitN2(TrimSpace(parts[1]), "=")
         IN  /\ Len(pair) = 2 /\ IsToken(pair[1]) /\ pair[2] # <<>>
             /\ (Len(parts) = 2 => ValidParams(parts[2]))

ParseMediaType(v) ==
    LET parts == SplitN2(v, ";")
        base  == TrimSpace(parts[1])
        lower == [i \in 1..Len(base) |-> ToLower(base[i])]
    IN  IF ~ValidMediaType(lower) THEN [err |-> TRUE, mediatype |-> <<>>]
        ELSE IF Len(parts) = 2 /\ ~ValidParams(parts[2]) THEN [err |-> TRUE, mediatype |-> lower]
        ELSE [err |-> FALSE, mediatype |-> lower]

videoMP4 == <<"v", "i", "d", "e", "o", "/", "m", "p", "4">>

(***************************************************************************)
(* The server: requests in flight, the local disk, the object store and    *)
(* the metadata store.                                                     *)
(***************************************************************************)

VARIABLES
    version,    \* which of the three versions of handler_upload_video.go is built
    handler,    \* per request: the position in handlerUploadVideo and its locals
    disk,       \* the local files: path -> content
    s3,         \* the objects of the object store
    db,         \* the metadata store: video ID -> record
    unit,       \* the last application of a function taken alone
    videoThumbnails  \* the in-memory thumbnails: video ID -> data and media type

vars == <<version, handler, disk, s3, db, unit, videoThumbnails>>

\* "flat": the version without probe and remux (flat key, public URL);
\* "aspect": probe, remux, aspect-prefixed key, public URL;
\* "signed": as "aspect", with the bucket,key locator and a signed response.
Versions == {"flat", "aspect", "signed"}

Reqs == {"r1", "r2"}
Users == {"alice", "bob"}
\* The strings that uuid.Parse accepts among the video IDs requests carry.
UUIDs == {"v1", "v2", "v404"}
VideoIDStrings == UUIDs \cup {"not-a-uuid"}
\* What the bearer token of a request is: absent, not a valid JWT, or a valid
\* JWT of a user.
Tokens == {"none", "invalid"} \cup Users

\* http.MaxBytesReader(w, r.Body, 1<<30)
MaxBytes == 1073741824
BodySizes == {MaxBytes, MaxBytes + 1}

ContentTypeHeaders ==
    { videoMP4,
      <<"V", "i", "d", "e", "o", "/", "M", "P", "4", ";", " ", "c", "o", "d", "e", "c", "s", "=", "a", "v", "c", "1">>,
      <<"v", "i", "d", "e", "o", "/", "w", "e", "b", "m">>,
      <<>> }

\* The names os.CreateTemp("", "tubely-upload-*.mp4") may draw.
TempNames == {"/tmp/tubely-upload-1.mp4", "/tmp/tubely-upload-2.mp4"}

Stream(type, width, height) == [codec_type |-> type, width |-> width, height |-> height]
\* What ffprobe may list for an uploaded file.
ProbeStreams ==
    { <<Stream("audio", 0, 0), Stream("video", 1280, 720)>>,
      <<Stream("video", 1080, 1920)>>,
      <<Stream("video", 1000, 1000), Stream("video", 1920, 1080)>>,
      <<Stream("audio", 0, 0)>>,
      <<Stream("video", 0, 1080)>> }

\* What running ffprobe may give: it fails, its output does not unmarshal, or
\* it lists streams.
ProbeOutcomes ==
    { [run |-> FALSE, json |-> FALSE, streams |-> <<>>],
      [run |-> TRUE, json |-> FALSE, streams |-> <<>>] }
        \cup {[run |-> TRUE, json |-> TRUE, streams |-> streams] : streams \in ProbeStreams}

\* How many values the random source may give.
NumRandom == 2
\* rand.Read(randomBytes): the bytes drawn.
RandomBytes(k) == [i \in 1..RandomLen |-> IF i = RandomLen THEN k ELSE (37 * i) % 256]

NoVideo == [ID |-> "", UserID |-> "", VideoURL |-> Nil, ThumbnailURL |-> Nil]
\* A file as os.CreateTemp leaves it; from is the request that made the file.
NewFile(r) == [kind |-> "empty", size |-> 0, from |-> r]

Locals ==
    [pc |-> "received", videoID |-> "", token |-> "", userID |-> "", video |-> NoVideo,
     size |-> 0, read |-> 0, contentType |-> Nil, tempFile |-> "", probed |-> <<>>, aspect |-> <<>>,
     processedPath |-> "", randomBytes |-> <<>>, objectKey |-> <<>>, calls |-> <<>>,
     status |-> 0, msg |-> "", body |-> NoVideo, ctxDone |-> FALSE,
     ext |-> "", filename |-> "", filePath |-> ""]

\* The server with two requests received and no video uploaded yet.
Start ==
    /\ handler = [r \in Reqs |-> Locals]
    /\ disk = <<>>
    /\ s3 = {}
    /\ db = [id \in {"v1", "v2"} |->
                [ID |-> id, UserID |-> IF id = "v1" THEN "alice" ELSE "carol",
                 VideoURL |-> Nil, ThumbnailURL |-> Nil]]
    /\ unit = [op |-> "none"]
    /\ videoThumbnails = <<>>

Init == version \in Versions /\ Start

InitSigned == version = "signed" /\ Start

\* os.Remove(path); an error (no such file) is ignored.
Remove(d, path) == [q \in DOMAIN d \ {path} |-> d[q]]

\* The file at path written with content (created when it is not there).
WriteFile(d, path, content) ==
    [q \in DOMAIN d \cup {path} |-> IF q = path THEN content ELSE d[q]]

\* The deferred calls of handlerUploadVideo, run at every return after they
\* were registered: os.Remove(processedPath), then os.Remove(tempFile.Name()).
Deferred(d, l) ==
    LET d1 == IF l.processedPath # "" THEN Remove(d, l.processedPath) ELSE d
    IN  IF l.tempFile # "" THEN Remove(d1, l.tempFile) ELSE d1

Called(l, op, ok) == [l EXCEPT !.calls = Append(@, [op |-> op, ok |-> ok])]

\* respondWithError / respondWithJSON and return: the deferred calls run.
Respond(r, l, d, status, msg, body) ==
    /\ handler' = [handler EXCEPT ![r] =
                      [l EXCEPT !.pc = "done", !.status = status, !.msg = msg, !.body = body]]
    /\ disk' = Deferred(d, l)

RespondError(r, l, d, status, msg) == Respond(r, l, d, status, msg, NoVideo)

\* The handler goes on to its next step.
Goto(r, l, d, pc) ==
    /\ handler' = [handler EXCEPT ![r] = [l EXCEPT !.pc = pc]]
    /\ disk' = d

\* The video ID of the URL and the bearer token.
Authenticate(r) ==
    /\ handler[r].pc = "received"
    /\ \E id \in VideoIDStrings, tok \in Tokens :
          LET l == [handler[r] EXCEPT !.videoID = id, !.token = tok]
          IN  IF id \notin UUIDs THEN RespondError(r, l, disk, 400, "Invalid video ID")
              ELSE IF tok = "none" THEN RespondError(r, l, disk, 401, "Couldn't find JWT")
              ELSE IF tok = "invalid" THEN RespondError(r, l, disk, 401, "Invalid JWT")
              ELSE Goto(r, [l EXCEPT !.userID = tok], disk, "getVideo")
    /\ UNCHANGED <<version, s3, db, unit, videoThumbnails>>

\* GetVideo without the ownership check.
GetVideoAnyOwner(r) ==
    /\ handler[r].pc = "getVideo"
    /\ \E dbOK \in BOOLEAN :
          LET l == handler[r]
          IN  IF ~dbOK THEN RespondError(r, l, disk, 500, "Database error")
              ELSE IF l.videoID \notin DOMAIN db
              THEN RespondError(r, l, disk, 404, "Video not found")
              ELSE Goto(r, [l EXCEPT !.video = db[l.videoID]], disk, "parseForm")
    /\ UNCHANGED <<version, s3, db, unit, videoThumbnails>>

\* cfg.db.GetVideo and the ownership check.
GetVideo(r) ==
    /\ handler[r].pc = "getVideo"
    /\ \E dbOK \in BOOLEAN :
          LET l == handler[r]
          IN  IF ~dbOK THEN RespondError(r, l, disk, 500, "Database error")
              ELSE IF l.videoID \notin DOMAIN db
              THEN RespondError(r, l, disk, 404, "Video not found")
              ELSE IF db[l.videoID].UserID # l.userID
              THEN RespondError(r, [l EXCEPT !.video = db[l.videoID]], disk,
                                401, "Unauthorized access")
              ELSE Goto(r, [l EXCEPT !.video = db[l.videoID]], disk, "parseForm")
    /\ UNCHANGED <<version, s3, db, unit, videoThumbnails>>

\* A body of size bytes read to its end through a reader without a limit.
ReadBodyUnlimited(size) == [n |-> size, err |-> FALSE]

\* A body of size bytes read to its end through http.MaxBytesReader: n bytes
\* are handed on, and the read fails when the body is longer than MaxBytes.
ReadBody(size) == [n |-> Min(size, MaxBytes), err |-> size > MaxBytes]

\* ParseForm without the comparison of the media type.
ParseFormAnyType(r) ==
    /\ handler[r].pc = "parseForm"
    /\ \E size \in BodySizes, wellFormed \in BOOLEAN, hasVideo \in BOOLEAN,
          header \in ContentTypeHeaders :
          LET body == ReadBody(size)
              l    == [handler[r] EXCEPT !.size = size, !.read = body.n]
              mt   == ParseMediaType(header)
          IN  IF body.err \/ ~wellFormed
              THEN RespondError(r, l, disk, 400, "Error parsing form")
              ELSE IF ~hasVideo THEN RespondError(r, l, disk, 400, "Missing video file")
              ELSE IF mt.err
              THEN RespondError(r, [l EXCEPT !.contentType = Ptr(header)], disk,
                                400, "Invalid Content-Type")
              ELSE Goto(r, [l EXCEPT !.contentType = Ptr(header)], disk, "createTemp")
    /\ UNCHANGED <<version, s3, db, unit, videoThumbnails>>

\* r.ParseMultipartForm over the MaxBytesReader, r.FormFile("video") and the
\* validation of the part's Content-Type.
ParseForm(r) ==
    /\ handler[r].pc = "parseForm"
    /\ \E size \in BodySizes, wellFormed \in BOOLEAN, hasVideo \in BOOLEAN,
          header \in ContentTypeHeaders :
          LET body == ReadBody(size)
              l    == [handler[r] EXCEPT !.size = size, !.read = body.n]
              mt   == ParseMediaType(header)
          IN  IF body.err \/ ~wellFormed
              THEN RespondError(r, l, disk, 400, "Error parsing form")
              ELSE IF ~hasVideo THEN RespondError(r, l, disk, 400, "Missing video file")
              ELSE IF mt.err
              THEN RespondError(r, [l EXCEPT !.contentType = Ptr(header)], disk,
                                400, "Invalid Content-Type")
              ELSE IF mt.mediatype # videoMP4
              THEN RespondError(r, [l EXCEPT !.contentType = Ptr(header)], disk,
                                415, "Only MP4 videos are allowed")
              ELSE Goto(r, [l EXCEPT !.contentType = Ptr(header)], disk, "createTemp")
    /\ UNCHANGED <<version, s3, db, unit, videoThumbnails>>

\* os.CreateTemp and the two defers after it.  The part's header is not read
\* again once its media type was accepted.
CreateTemp(r) ==
    /\ handler[r].pc = "createTemp"
    /\ LET l == [handler[r] EXCEPT !.contentType = Nil]
       IN  \/ RespondError(r, Called(l, "CreateTemp", FALSE), disk,
                           500, "Failed to create temp file")
           \/ \E name \in TempNames \ DOMAIN disk :
                 Goto(r, [Called(l, "CreateTemp", TRUE) EXCEPT !.tempFile = name],
                      WriteFile(disk, name, NewFile(r)), "copy")
    /\ UNCHANGED <<version, s3, db, unit, videoThumbnails>>

\* The bytes of the uploaded part, as far as they were copied.
Upload(r, kind) == [kind |-> kind, size |-> handler[r].read, from |-> r]

\* Copy going on to the remux without the probe.
CopySkippingProbe(r) ==
    /\ handler[r].pc = "copy"
    /\ LET l == handler[r]
       IN  \/ RespondError(r, Called(l, "Copy", FALSE),
                           WriteFile(disk, l.tempFile, Upload(r, "truncated")),
                           500, "Failed to save video")
           \/ RespondError(r, Called(Called(l, "Copy", TRUE), "Seek", FALSE),
                           WriteFile(disk, l.tempFile, Upload(r, "upload")),
                           500, "Failed to process video")
           \/ Goto(r, Called(Called(l, "Copy", TRUE), "Seek", TRUE),
                   WriteFile(disk, l.tempFile, Upload(r, "upload")),
                   IF version = "flat" THEN "prepare" ELSE "remux")
    /\ UNCHANGED <<version, s3, db, unit, videoThumbnails>>

\* io.Copy(tempFile, file) and tempFile.Seek(0, io.SeekStart).
Copy(r) ==
    /\ handler[r].pc = "copy"
    /\ LET l == handler[r]
       IN  \/ RespondError(r, Called(l, "Copy", FALSE),
                           WriteFile(disk, l.tempFile, Upload(r, "truncated")),
                           500, "Failed to save video")
           \/ RespondError(r, Called(Called(l, "Copy", TRUE), "Seek", FALSE),
                           WriteFile(disk, l.tempFile, Upload(r, "upload")),
                           500, "Failed to process video")
           \/ Goto(r, Called(Called(l, "Copy", TRUE), "Seek", TRUE),
                   WriteFile(disk, l.tempFile, Upload(r, "upload")),
                   IF version = "flat" THEN "prepare" ELSE "probe")
    /\ UNCHANGED <<version, s3, db, unit, videoThumbnails>>

\* getVideoAspectRatio(tempFile.Name()): ffprobe runs on the staged file.
Probe(r) ==
    /\ handler[r].pc = "probe"
    /\ \E probe \in ProbeOutcomes :
          LET res == getVideoAspectRatio(probe)
              l   == [Called(handler[r], "getVideoAspectRatio", res.err = "")
                         EXCEPT !.probed = probe.streams]
          IN  IF res.err # ""
              THEN RespondError(r, l, disk, 500, "Failed to analyze video")
              ELSE Goto(r, [l EXCEPT !.aspect = res.aspect], disk, "remux")
    /\ UNCHANGED <<version, s3, db, unit, videoThumbnails>>

\* outputPath := filePath + ".processing"
OutputPath(filePath) == filePath \o ".processing"

\* What ffmpeg wrote of its output when it failed after it began to write.
Partial(content) == [content EXCEPT !.kind = "partial"]
\* The output of ffmpeg -c copy -movflags faststart.
FastStart(content) == [content EXCEPT !.kind = "faststart"]

\* processVideoForFastStart(tempFile.Name()) and the defer after it.  ffmpeg is
\* run without -y: it fails when its output file exists.
Remux(r) ==
    /\ handler[r].pc = "remux"
    /\ LET l   == handler[r]
           out == OutputPath(l.tempFile)
       IN  \/ RespondError(r, Called(l, "processVideoForFastStart", FALSE), disk, 500, "Video processing failed")
           \/ /\ out \notin DOMAIN disk
              /\ RespondError(r, Called(l, "processVideoForFastStart", FALSE),
                              WriteFile(disk, out, Partial(disk[l.tempFile])),
                              500, "Video processing failed")
           \/ /\ out \notin DOMAIN disk
              /\ Goto(r, [Called(l, "processVideoForFastStart", TRUE) EXCEPT !.processedPath = out],
                      WriteFile(disk, out, FastStart(disk[l.tempFile])), "prepare")
    /\ UNCHANGED <<version, s3, db, unit, videoThumbnails>>

\* os.Open(processedPath) and Seek (not in the "flat" version), rand.Read and
\* the object key.
Prepare(r) ==
    /\ handler[r].pc = "prepare"
    /\ LET l == handler[r]
       IN  \/ /\ version # "flat"
              /\ RespondError(r, Called(l, "Open", FALSE), disk,
                              500, "Failed to open processed video")
           \/ /\ version # "flat"
              /\ RespondError(r, Called(l, "Seek", FALSE), disk,
                              500, "Failed to read processed video")
           \/ RespondError(r, Called(l, "rand", FALSE), disk, 500, "Failed to generate filename")
           \/ \E k \in 0..(NumRandom - 1) :
                 Goto(r, [Called(l, "rand", TRUE) EXCEPT
                             !.randomBytes = RandomBytes(k),
                             !.objectKey = IF version = "flat" THEN FlatKey(RandomBytes(k))
                                           ELSE AspectKey(l.aspect, RandomBytes(k))],
                      disk, "put")
    /\ UNCHANGED <<version, s3, db, unit, videoThumbnails>>

\* The staged upload as Body in every version.
StagedPath(l) == l.tempFile

\* The file the handler gives PutObject as Body.
BodyPath(l) == IF version = "flat" THEN l.tempFile ELSE l.processedPath

\* A PutObject that reports success and stores nothing.
PutObjectDropping(objects, bucket, key, body, contentType) == objects

\* s3Client.PutObject of an object: it replaces the object of that bucket and key.
PutObject(objects, bucket, key, body, contentType) ==
    {o \in objects : ~(o.bucket = bucket /\ o.key = key)}
        \cup {[bucket |-> bucket, key |-> key, body |-> body, contentType |-> contentType]}

\* Put calling PutObject a second time when the first call failed.
PutRetrying(r) ==
    /\ handler[r].pc = "put"
    /\ LET l == handler[r]
       IN  \/ /\ IF \E i \in 1..Len(l.calls) : l.calls[i].op = "PutObject"
                 THEN RespondError(r, Called(l, "PutObject", FALSE), disk, 500, "Failed to upload to S3")
                 ELSE Goto(r, Called(l, "PutObject", FALSE), disk, "put")
              /\ s3' = s3
           \/ /\ Goto(r, Called(l, "PutObject", TRUE), disk, "update")
              /\ s3' = PutObject(s3, s3Bucket, l.objectKey, disk[BodyPath(l)], videoMP4)
    /\ UNCHANGED <<version, db, unit, videoThumbnails>>

\* Put going on to the record update when PutObject failed.
PutIgnoringError(r) ==
    /\ handler[r].pc = "put"
    /\ LET l == handler[r]
       IN  \/ /\ Goto(r, Called(l, "PutObject", FALSE), disk, "update")
              /\ s3' = s3
           \/ /\ Goto(r, Called(l, "PutObject", TRUE), disk, "update")
              /\ s3' = PutObject(s3, s3Bucket, l.objectKey, disk[BodyPath(l)], videoMP4)
    /\ UNCHANGED <<version, db, unit, videoThumbnails>>

\* cfg.s3Client.PutObject of the processed file.
Put(r) ==
    /\ handler[r].pc = "put"
    /\ LET l == handler[r]
       IN  \/ /\ RespondError(r, Called(l, "PutObject", FALSE), disk, 500, "Failed to upload to S3")
              /\ s3' = s3
           \/ /\ Goto(r, Called(l, "PutObject", TRUE), disk, "update")
              /\ s3' = PutObject(s3, s3Bucket, l.objectKey, disk[BodyPath(l)], videoMP4)
    /\ UNCHANGED <<version, db, unit, videoThumbnails>>

\* VideoURL with the public URL in every version.
VideoURLPublic(key) == PublicURL(s3Bucket, s3Region, key)

\* The value the handler sets video.VideoURL to.
VideoURL(key) ==
    IF version = "signed" THEN Locator(s3Bucket, key) ELSE PublicURL(s3Bucket, s3Region, key)

\* cfg.db.UpdateVideo(video): the whole record is written.
UpdateVideo(store, video) == [store EXCEPT ![video.ID] = video]

\* Update with an UpdateVideo that writes the record although it fails.
UpdateWritingOnFailure(r) ==
    /\ handler[r].pc = "update"
    /\ LET l     == handler[r]
           video == [l.video EXCEPT !.VideoURL = Ptr(VideoURL(l.objectKey))]
       IN  \/ /\ RespondError(r, [Called(l, "UpdateVideo", FALSE) EXCEPT !.video = video],
                              disk, 500, "Failed to update video")
              /\ db' = UpdateVideo(db, video)
           \/ /\ db' = UpdateVideo(db, video)
              /\ IF version = "signed"
                 THEN Goto(r, [Called(l, "UpdateVideo", TRUE) EXCEPT !.video = video], disk, "sign")
                 ELSE Respond(r, [Called(l, "UpdateVideo", TRUE) EXCEPT !.video = video],
                              disk, 200, "", video)
    /\ UNCHANGED <<version, s3, unit, videoThumbnails>>

\* video.VideoURL = &videoURL and cfg.db.UpdateVideo(video); but for the
\* "signed" version, the response.
Update(r) ==
    /\ handler[r].pc = "update"
    /\ LET l     == handler[r]
           video == [l.video EXCEPT !.VideoURL = Ptr(VideoURL(l.objectKey))]
       IN  \/ /\ RespondError(r, [Called(l, "UpdateVideo", FALSE) EXCEPT !.video = video],
                              disk, 500, "Failed to update video")
              /\ db' = db
           \/ /\ db' = UpdateVideo(db, video)
              /\ IF version = "signed"
                 THEN Goto(r, [Called(l, "UpdateVideo", TRUE) EXCEPT !.video = video], disk, "sign")
                 ELSE Respond(r, [Called(l, "UpdateVideo", TRUE) EXCEPT !.video = video],
                              disk, 200, "", video)
    /\ UNCHANGED <<version, s3, unit, videoThumbnails>>

\* Sign writing the signed record to the metadata store.
SignPersisting(r) ==
    /\ handler[r].pc = "sign"
    /\ \E presignOK \in BOOLEAN :
          LET res == dbVideoToSignedVideo(handler[r].video, presignOK)
              l   == [handler[r] EXCEPT !.calls =
                         @ \o [i \in 1..Len(res.presigned) |->
                                  [op |-> "Presign", ok |-> ~res.err]]]
          IN  IF res.err
              THEN RespondError(r, l, disk, 500, "Failed to generate URL") /\ db' = db
              ELSE Respond(r, l, disk, 200, "", res.video) /\ db' = UpdateVideo(db, res.video)
    /\ UNCHANGED <<version, s3, unit, videoThumbnails>>

\* cfg.dbVideoToSignedVideo(video) and the response ("signed" version).
Sign(r) ==
    /\ handler[r].pc = "sign"
    /\ \E presignOK \in BOOLEAN :
          LET res == dbVideoToSignedVideo(handler[r].video, presignOK)
              l   == [handler[r] EXCEPT !.calls =
                         @ \o [i \in 1..Len(res.presigned) |->
                                  [op |-> "Presign", ok |-> ~res.err]]]
          IN  IF res.err THEN RespondError(r, l, disk, 500, "Failed to generate URL")
              ELSE Respond(r, l, disk, 200, "", res.video)
    /\ UNCHANGED <<version, s3, db, unit, videoThumbnails>>

Step(r) ==
    \/ Authenticate(r)
    \/ GetVideo(r)
    \/ ParseForm(r)
    \/ CreateTemp(r)
    \/ Copy(r)
    \/ Probe(r)
    \/ Remux(r)
    \/ Prepare(r)
    \/ Put(r)
    \/ Update(r)
    \/ Sign(r)

Next == \E r \in Reqs : Step(r)

Spec == Init /\ [][Next]_vars

\* The client of r goes away or the server's timeout passes while ffprobe or
\* ffmpeg runs or the put is in flight: r.Context() is done.  The handler
\* never reads r.Context().
Cancel(r) ==
    /\ handler[r].pc \in {"probe", "remux", "put"}
    /\ ~handler[r].ctxDone
    /\ handler' = [handler EXCEPT ![r].ctxDone = TRUE]
    /\ UNCHANGED <<version, disk, s3, db, unit, videoThumbnails>>

NextCancel == Next \/ \E r \in Reqs : Cancel(r)

\* The version that signs, with requests that may be cancelled.
SpecCancel == InitSigned /\ [][NextCancel]_vars

\* The version that signs, every request in flight taking its next step: the
\* server runs each handler in a goroutine of its own.
SpecSigned ==
    /\ InitSigned
    /\ [][Next]_vars
    /\ \A r \in Reqs : WF_vars(Step(r))

(***************************************************************************)
(* handlerUploadThumbnail in its three versions: "assets" stores the file  *)
(* under the assets root named by the video ID, "random" under a random    *)
(* name, "signed" (the build that signs video URLs) keeps the thumbnail in *)
(* memory.                                                                 *)
(***************************************************************************)

ThumbVersions == {"assets", "random", "signed"}

imageJPEG == <<"i", "m", "a", "g", "e", "/", "j", "p", "e", "g">>
imagePNG  == <<"i", "m", "a", "g", "e", "/", "p", "n", "g">>
imageGIF  == <<"i", "m", "a", "g", "e", "/", "g", "i", "f">>
imageWEBP == <<"i", "m", "a", "g", "e", "/", "w", "e", "b", "p">>

\* The Content-Type headers thumbnail parts carry.
ThumbnailHeaders ==
    { imageJPEG,
      <<"I", "m", "a", "g", "e", "/", "P", "N", "G", ";", " ", "q", "=", "1">>,
      imageGIF,
      <<>> }

\* const maxMemory = 10 << 20: what ParseMultipartForm keeps in memory; larger
\* parts go to temporary files of the form, they are not refused.
maxMemory == 10485760
ThumbnailSizes == {maxMemory + 1}

\* cfg.assetsRoot and cfg.port, as configured.
assetsRoot == "assets"
port == "8091"

\* A string of characters as one string.
RECURSIVE Str(_)
Str(chars) == IF chars = <<>> THEN "" ELSE Head(chars) \o Str(Tail(chars))

\* getExtensionFromMIME of the "assets" version: the header as it was sent.
getExtensionFromMIME(mimeType) ==
    IF mimeType = imageJPEG THEN [ext |-> ".jpg", err |-> FALSE]
    ELSE IF mimeType = imagePNG THEN [ext |-> ".png", err |-> FALSE]
    ELSE IF mimeType = imageGIF THEN [ext |-> ".gif", err |-> FALSE]
    ELSE IF mimeType = imageWEBP THEN [ext |-> ".webp", err |-> FALSE]
    ELSE [ext |-> "", err |-> TRUE]

\* filepath.Join(cfg.assetsRoot, filename)
Join(root, name) == root \o "/" \o name

\* fmt.Sprintf("http://localhost:%s/assets/%s", cfg.port, filename)
AssetURL(filename) == "http://localhost:" \o port \o "/assets/" \o filename

\* fmt.Sprintf("http://localhost:%s/api/thumbnails/%s", cfg.port, videoID)
ThumbnailAPIURL(videoID) == "http://localhost:" \o port \o "/api/thumbnails/" \o videoID

\* The server with two thumbnail requests received.
StartThumb ==
    /\ handler = [r \in Reqs |-> [Locals EXCEPT !.pc = "thumbReceived"]]
    /\ disk = <<>>
    /\ s3 = {}
    /\ db = [id \in {"v1", "v2"} |->
                [ID |-> id, UserID |-> IF id = "v1" THEN "alice" ELSE "carol",
                 VideoURL |-> Nil, ThumbnailURL |-> Nil]]
    /\ unit = [op |-> "none"]
    /\ videoThumbnails = <<>>

InitThumb == version \in ThumbVersions /\ StartThumb

\* The video ID of the URL and the bearer token.
ThumbAuthenticate(r) ==
    /\ handler[r].pc = "thumbReceived"
    /\ \E id \in VideoIDStrings, tok \in Tokens :
          LET l == [handler[r] EXCEPT !.videoID = id, !.token = tok]
          IN  IF id \notin UUIDs THEN RespondError(r, l, disk, 400, "Invalid video ID")
              ELSE IF tok = "none" THEN RespondError(r, l, disk, 401, "Couldn't find JWT")
              ELSE IF tok = "invalid" THEN RespondError(r, l, disk, 401, "Invalid JWT")
              ELSE Goto(r, [l EXCEPT !.userID = tok], disk, "thumbParseForm")
    /\ UNCHANGED <<version, s3, db, unit, videoThumbnails>>

\* r.ParseMultipartForm(maxMemory), r.FormFile("thumbnail") and, in the
\* versions that store a file, the validation of the part's Content-Type and
\* the extension.
ThumbParseForm(r) ==
    /\ handler[r].pc = "thumbParseForm"
    /\ \E size \in ThumbnailSizes, wellFormed \in BOOLEAN, hasThumbnail \in BOOLEAN,
          header \in ThumbnailHeaders :
          LET l  == [handler[r] EXCEPT !.size = size, !.read = size, !.contentType = Ptr(header)]
              e  == getExtensionFromMIME(header)
              mt == ParseMediaType(header)
          IN  IF ~wellFormed THEN RespondError(r, handler[r], disk, 400, "Error parsing form")
              ELSE IF ~hasThumbnail
              THEN RespondError(r, handler[r], disk, 400, "Missing thumbnail file")
              ELSE IF version = "assets"
              THEN IF e.err THEN RespondError(r, l, disk, 415, "Unsupported file type")
                   ELSE Goto(r, [l EXCEPT !.ext = e.ext], disk, "thumbName")
              ELSE IF version = "random"
              THEN IF mt.err THEN RespondError(r, l, disk, 400, "Invalid Content-Type header")
                   ELSE IF mt.mediatype # imageJPEG /\ mt.mediatype # imagePNG
                   THEN RespondError(r, l, disk, 415, "Only JPEG and PNG images are allowed")
                   ELSE Goto(r, [l EXCEPT !.ext = IF mt.mediatype = imageJPEG THEN ".jpg" ELSE ".png"],
                             disk, "thumbName")
              ELSE Goto(r, l, disk, "thumbReadAll")
    /\ UNCHANGED <<version, s3, db, unit, videoThumbnails>>

\* The file name and the path under the assets root: the video ID in the
\* "assets" version, 32 random bytes in base64 in the "random" version.
ThumbName(r) ==
    /\ handler[r].pc = "thumbName"
    /\ LET l == handler[r]
       IN  IF version = "assets"
           THEN Goto(r, [l EXCEPT !.filename = l.videoID \o l.ext,
                                  !.filePath = Join(assetsRoot, l.videoID \o l.ext)],
                     disk, "thumbCreate")
           ELSE \/ RespondError(r, Called(l, "rand", FALSE), disk, 500, "Failed to generate filename")
                \/ \E k \in 0..(NumRandom - 1) :
                      LET name == Str(EncodeToString(RandomBytes(k))) \o l.ext
                      IN  Goto(r, [Called(l, "rand", TRUE) EXCEPT
                                      !.randomBytes = RandomBytes(k),
                                      !.filename = name, !.filePath = Join(assetsRoot, name)],
                               disk, "thumbCreate")
    /\ UNCHANGED <<version, s3, db, unit, videoThumbnails>>

\* os.Create(filePath): the file is created, or cut to nothing when it is there.
ThumbCreate(r) ==
    /\ handler[r].pc = "thumbCreate"
    /\ LET l == handler[r]
       IN  \/ RespondError(r, Called(l, "Create", FALSE), disk, 500, "Failed to create file")
           \/ Goto(r, Called(l, "Create", TRUE), WriteFile(disk, l.filePath, NewFile(r)), "thumbCopy")
    /\ UNCHANGED <<version, s3, db, unit, videoThumbnails>>

\* The bytes of the thumbnail part, as far as they were copied.
Thumbnail(r, kind) == [kind |-> kind, size |-> handler[r].read, from |-> r]

\* io.Copy(dst, file)
ThumbCopy(r) ==
    /\ handler[r].pc = "thumbCopy"
    /\ LET l == handler[r]
       IN  \/ RespondError(r, Called(l, "Copy", FALSE),
                           WriteFile(disk, l.filePath, Thumbnail(r, "truncated")),
                           500, "Failed to save file")
           \/ Goto(r, Called(l, "Copy", TRUE),
                   WriteFile(disk, l.filePath, Thumbnail(r, "thumbnail")), "thumbGetVideo")
    /\ UNCHANGED <<version, s3, db, unit, videoThumbnails>>

\* io.ReadAll(file) of the version that keeps thumbnails in memory.
ThumbReadAll(r) ==
    /\ handler[r].pc = "thumbReadAll"
    /\ LET l == handler[r]
       IN  \/ RespondError(r, Called(l, "ReadAll", FALSE), disk, 500, "Error reading file")
           \/ Goto(r, Called(l, "ReadAll", TRUE), disk, "thumbGetVideo")
    /\ UNCHANGED <<version, s3, db, unit, videoThumbnails>>

\* cfg.db.GetVideo and the ownership check of the thumbnail handler.
ThumbGetVideo(r) ==
    /\ handler[r].pc = "thumbGetVideo"
    /\ \E dbOK \in BOOLEAN :
          LET l == handler[r]
          IN  IF ~dbOK THEN RespondError(r, l, disk, 500, "Database error")
              ELSE IF l.videoID \notin DOMAIN db
              THEN RespondError(r, l, disk, 404, "Video not found")
              ELSE IF db[l.videoID].UserID # l.userID
              THEN RespondError(r, [l EXCEPT !.video = db[l.videoID]], disk,
                                401, "Unauthorized access")
              ELSE Goto(r, [l EXCEPT !.video = db[l.videoID]], disk,
                        IF version = "signed" THEN "thumbStore" ELSE "thumbUpdate")
    /\ UNCHANGED <<version, s3, db, unit, videoThumbnails>>

\* videoThumbnails[videoID] = thumbnail{data, mediaType}
ThumbStore(r) ==
    /\ handler[r].pc = "thumbStore"
    /\ LET l == handler[r]
       IN  /\ videoThumbnails' =
                 [id \in DOMAIN videoThumbnails \cup {l.videoID} |->
                     IF id = l.videoID
                     THEN [data |-> Thumbnail(r, "thumbnail"), mediaType |-> l.contentType[1]]
                     ELSE videoThumbnails[id]]
           /\ Goto(r, l, disk, "thumbUpdate")
    /\ UNCHANGED <<version, s3, db, unit>>

\* The value the handler sets video.ThumbnailURL to.
ThumbnailURL(l) ==
    IF version = "signed" THEN ThumbnailAPIURL(l.videoID) ELSE AssetURL(l.filename)

\* video.ThumbnailURL = &thumbnailURL, cfg.db.UpdateVideo(video) and the response.
ThumbUpdate(r) ==
    /\ handler[r].pc = "thumbUpdate"
    /\ LET l     == handler[r]
           video == [l.video EXCEPT !.ThumbnailURL = Ptr(ThumbnailURL(l))]
       IN  \/ /\ RespondError(r, Called([l EXCEPT !.video = video], "UpdateVideo", FALSE), disk,
                              500, "Failed to update video")
              /\ db' = db
           \/ /\ Respond(r, Called([l EXCEPT !.video = video], "UpdateVideo", TRUE), disk,
                         200, "", video)
              /\ db' = UpdateVideo(db, video)
    /\ UNCHANGED <<version, s3, unit, videoThumbnails>>

ThumbStep(r) ==
    \/ ThumbAuthenticate(r)
    \/ ThumbParseForm(r)
    \/ ThumbName(r)
    \/ ThumbCreate(r)
    \/ ThumbCopy(r)
    \/ ThumbReadAll(r)
    \/ ThumbGetVideo(r)
    \/ ThumbStore(r)
    \/ ThumbUpdate(r)

NextThumb == \E r \in Reqs : ThumbStep(r)

SpecThumb == InitThumb /\ [][NextThumb]_vars

(***************************************************************************)
(* A video upload and a thumbnail upload side by side.  In the "random"    *)
(* build the thumbnail handler stores files under random names and the     *)
(* video handler is the one of handler_upload_video.go (aspect key, public *)
(* URL); the "signed" build holds both handlers of its source file.        *)
(***************************************************************************)

MixedVersions == {"random", "signed"}

\* The request that uploads a video and the one that uploads a thumbnail.
VideoReq == "r1"
ThumbReq == "r2"

InitMixed ==
    /\ version \in MixedVersions
    /\ handler = [r \in Reqs |-> IF r = ThumbReq THEN [Locals EXCEPT !.pc = "thumbReceived"]
                                 ELSE Locals]
    /\ disk = <<>>
    /\ s3 = {}
    /\ db = [id \in {"v1", "v2"} |->
                [ID |-> id, UserID |-> IF id = "v1" THEN "alice" ELSE "carol",
                 VideoURL |-> Nil, ThumbnailURL |-> Nil]]
    /\ unit = [op |-> "none"]
    /\ videoThumbnails = <<>>

NextMixed == Step(VideoReq) \/ ThumbStep(ThumbReq)

SpecMixed == InitMixed /\ [][NextMixed]_vars

(***************************************************************************)
(* The functions taken alone: a behaviour applies one of them to one input  *)
(* and keeps the input and the result.                                     *)
(***************************************************************************)

\* The widths and heights up to which every geometry is tried.
MaxDim == 30
NamedDims == {1000, 1080, 1920}
Dims == 0..MaxDim \cup NamedDims

\* Lists of up to MaxStreams streams: audio and subtitle streams, video
\* streams of both orientations, and video streams whose width or height is
\* absent (decoded as 0) or negative.
MaxStreams == 3
StreamKinds ==
    { Stream("audio", 0, 0), Stream("subtitle", 0, 0),
      Stream("video", 16, 9), Stream("video", 9, 16), Stream("video", 0, 0),
      Stream("video", 0 - 16, 0 - 9), Stream("video", 0 - 16, 9) }
MixedStreams == UNION {[1..k -> StreamKinds] : k \in 0..MaxStreams}

UnitStreams == ProbeStreams \cup {<<Stream("video", w, h)>> : w, h \in Dims} \cup MixedStreams

aKey == AspectKey(landscape, RandomBytes(0))

\* The values the VideoURL of a record may hold.
UnitLocators ==
    { Nil, Ptr(<<>>), Ptr(Locator(s3Bucket, aKey)), Ptr(PublicURL(s3Bucket, s3Region, aKey)),
      Ptr(<<"t", "u", "b", "e", "l", "y">>), Ptr(<<",">>) }

UnitVideos ==
    { [ID |-> "v1", UserID |-> "alice", VideoURL |-> u, ThumbnailURL |-> t] :
         u \in UnitLocators, t \in {Nil, Ptr(<<"/", "a", "s", "s", "e", "t", "s", "/", "v", "1">>)} }

InitUnit ==
    /\ version = "signed"
    /\ handler = [r \in Reqs |-> Locals]
    /\ disk = <<>>
    /\ s3 = {}
    /\ db = <<>>
    /\ unit = [op |-> "none"]
    /\ videoThumbnails = <<>>

\* getVideoAspectRatio applied to what ffprobe gave.
UnitProbe ==
    /\ unit.op = "none"
    /\ \E run \in BOOLEAN, json \in BOOLEAN, streams \in UnitStreams :
          /\ ~run => json
          /\ LET probe == [run |-> run, json |-> json, streams |-> streams]
             IN  unit' = [op |-> "getVideoAspectRatio", probe |-> probe,
                          res |-> getVideoAspectRatio(probe)]
    /\ UNCHANGED <<version, handler, disk, s3, db, videoThumbnails>>

\* dbVideoToSignedVideo applied to a record.
UnitSign ==
    /\ unit.op = "none"
    /\ \E video \in UnitVideos, presignOK \in BOOLEAN :
          unit' = [op |-> "dbVideoToSignedVideo", video |-> video, presignOK |-> presignOK,
                   res |-> dbVideoToSignedVideo(video, presignOK)]
    /\ UNCHANGED <<version, handler, disk, s3, db, videoThumbnails>>

\* The lengths up to which bucket names and object keys are tried.
MaxBucketLen == 2
MaxKeyLen == 3

\* The strings of at most n characters of alphabet.
StringsOver(alphabet, n) == UNION {[1..k -> alphabet] : k \in 0..n}

\* What cfg.s3Bucket may be configured to, and the keys an object may have.
BucketStrings == StringsOver({"b", ".", ","}, MaxBucketLen) \cup {s3Bucket}
KeyStrings == StringsOver({"k", "/", ","}, MaxKeyLen) \cup {aKey}

\* The string the handler persists for a bucket and a key, read back by
\* dbVideoToSignedVideo.
UnitLocator ==
    /\ unit.op = "none"
    /\ \E bucket \in BucketStrings, key \in KeyStrings :
          LET video == [ID |-> "v1", UserID |-> "alice",
                        VideoURL |-> Ptr(Locator(bucket, key)), ThumbnailURL |-> Nil]
          IN  unit' = [op |-> "locator", bucket |-> bucket, key |-> key, video |-> video,
                       res |-> dbVideoToSignedVideo(video, TRUE)]
    /\ UNCHANGED <<version, handler, disk, s3, db, videoThumbnails>>

NextUnit == UnitProbe \/ UnitSign \/ UnitLocator

SpecUnit == InitUnit /\ [][NextUnit]_vars

(***************************************************************************)
(* The classification of a geometry.                                       *)
(***************************************************************************)

\* The classification in exact arithmetic: with r = width/height,
\* |r - 16/9| <= (16/9)/20 is 5*|9*width - 16*height| <= 4*height and
\* |r - 9/16| <= (9/16)/20 is 20*|16*width - 9*height| <= 9*height.
InLandscapeBand(width, height) == 5 * Abs(9 * width - 16 * height) <= 4 * height
InPortraitBand(width, height) == 20 * Abs(16 * width - 9 * height) <= 9 * height
ExactAspect(width, height) ==
    IF InLandscapeBand(width, height) THEN landscape
    ELSE IF InPortraitBand(width, height) THEN portrait
    ELSE other

\* The probe was applied to a single video stream of positive width and height.
ProbedGeometry ==
    /\ unit.op = "getVideoAspectRatio"
    /\ unit.probe.run /\ unit.probe.json
    /\ Len(unit.probe.streams) = 1
    /\ unit.probe.streams[1].codec_type = "video"
    /\ unit.probe.streams[1].width > 0
    /\ unit.probe.streams[1].height > 0

\* C8: for every geometry of positive width and height the probe classifies
\* it landscape exactly when |width/height - 16/9| <= (16/9)*0.05, otherwise
\* portrait exactly when |width/height - 9/16| <= (9/16)*0.05, otherwise other.
C8_ClassificationIsExact ==
    ProbedGeometry =>
        /\ unit.res.err = ""
        /\ unit.res.aspect = ExactAspect(unit.probe.streams[1].width,
                                         unit.probe.streams[1].height)

(***************************************************************************)
(* The signed view of a record without a locator.                          *)
(***************************************************************************)

\* dbVideoToSignedVideo was applied to a record whose locator is nil or empty.
SignedWithoutLocator ==
    /\ unit.op = "dbVideoToSignedVideo"
    /\ unit.video.VideoURL \in {Nil, Ptr(<<>>)}

\* C10 as stated: for a nil or empty locator dbVideoToSignedVideo returns the
\* record unchanged, without error and without a presign call.
C10_RecordUnchanged ==
    SignedWithoutLocator =>
        /\ unit.res.video = unit.video
        /\ ~unit.res.err
        /\ unit.res.presigned = <<>>

\* C10: for a nil or empty locator dbVideoToSignedVideo returns the record
\* with a nil locator and every other field unchanged, without error and
\* without a presign call.
C10_LocatorAbsent ==
    SignedWithoutLocator =>
        /\ unit.res.video = [unit.video EXCEPT !.VideoURL = Nil]
        /\ ~unit.res.err
        /\ unit.res.presigned = <<>>

\* dbVideoToSignedVideo was applied to a record whose locator is the empty
\* string and that has a thumbnail, and gave a record without locator.
C10_EmptyLocatorSigned ==
    /\ unit.op = "dbVideoToSignedVideo"
    /\ unit.video.VideoURL = Ptr(<<>>)
    /\ unit.video.ThumbnailURL # Nil
    /\ unit.res.video.VideoURL = Nil
    /\ unit.res.video.ThumbnailURL = unit.video.ThumbnailURL

(***************************************************************************)
(* The upload handler.                                                     *)
(***************************************************************************)

Last(seq) == seq[Len(seq)]

\* The step is one of request r.
Stepped(r) == handler'[r] # handler[r]

\* The calls of request r that are of op.
CallsOf(r, op) == {i \in 1..Len(handler[r].calls) : handler[r].calls[i].op = op}

\* Request r staged no file, ran no tool, put no object and updated no record.
NoSideEffect(r) ==
    /\ handler[r].calls = <<>>
    /\ handler[r].tempFile = ""
    /\ handler[r].processedPath = ""
    /\ handler[r].objectKey = <<>>

\* Request r was answered.
Done(r) == handler[r].pc = "done"

\* The authenticated user of request r is not the owner of the record it names.
NonOwner(r) ==
    /\ handler[r].userID # ""
    /\ handler[r].videoID \in DOMAIN db
    /\ db[handler[r].videoID].UserID # handler[r].userID

\* C1: a request of a user who does not own the record has no side effect:
\* it is answered 401 once the record was read (500 when the read failed),
\* it creates no temporary file, runs no tool, puts no object and updates no
\* record, and none of its steps changes the disk, the object store or the
\* metadata store.
C1_NonOwnerRejectedFirst ==
    /\ [](\A r \in Reqs : NonOwner(r) =>
            /\ NoSideEffect(r)
            /\ Done(r) => \/ handler[r].status = 401
                          \/ handler[r].status = 500 /\ handler[r].msg = "Database error")
    /\ [][\A r \in Reqs : Stepped(r) /\ NonOwner(r)' => UNCHANGED <<disk, s3, db>>]_vars

\* A request of a non-owner was answered 401 while the other request had
\* staged its file.
C1_NonOwnerRejected ==
    \E r \in Reqs, q \in Reqs :
        /\ NonOwner(r) /\ Done(r)
        /\ handler[r].status = 401 /\ handler[r].msg = "Unauthorized access"
        /\ q # r /\ handler[q].tempFile \in DOMAIN disk

\* C2: once a request was answered, no file it made is on the disk: neither
\* the staged file nor the output of the remux.
C2_NoTempFileRemains ==
    \A r \in Reqs : Done(r) => \A path \in DOMAIN disk : disk[path].from # r

\* C4: no more than MaxBytes of a body are read or written to a file, and a
\* request whose body is longer is answered 400 without side effect: no
\* staged file, no tool, no put, no update, and none of its steps changes the
\* disk, the object store or the metadata store.
C4_OversizeRejected ==
    /\ [](\A r \in Reqs :
            /\ handler[r].read <= MaxBytes
            /\ handler[r].size > MaxBytes =>
                  Done(r) /\ handler[r].status = 400 /\ NoSideEffect(r))
    /\ [](\A path \in DOMAIN disk : disk[path].size <= MaxBytes)
    /\ [][\A r \in Reqs : Stepped(r) /\ handler'[r].size > MaxBytes =>
             UNCHANGED <<disk, s3, db>>]_vars

\* A request with a body longer than MaxBytes was answered 400 when MaxBytes
\* of it were read.
C4_OversizeAnswered ==
    \E r \in Reqs :
        /\ handler[r].size = MaxBytes + 1 /\ handler[r].read = MaxBytes
        /\ Done(r) /\ handler[r].status = 400 /\ handler[r].msg = "Error parsing form"

\* The object request r put is in the object store.
ObjectOf(r) == {o \in s3 : o.bucket = s3Bucket /\ o.key = handler[r].objectKey}

\* C5: when UpdateVideo fails after the put, the request is answered 500, the
\* object it put stays in the object store, and the metadata store is as it
\* was; no other step of the request than the update writes the metadata
\* store.
C5_UpdateFailureKeepsObject ==
    [][\A r \in Reqs :
          /\ Stepped(r) /\ handler[r].pc = "update" /\ ~Last(handler'[r].calls).ok =>
                /\ Done(r)' /\ handler'[r].status = 500
                /\ Last(handler[r].calls) = [op |-> "PutObject", ok |-> TRUE]
                /\ db' = db /\ s3' = s3 /\ ObjectOf(r)' # {}
          /\ Stepped(r) /\ handler[r].pc # "update" => db' = db]_vars

\* A request was answered 500 for the failed update: its object is in the
\* object store and the record has no locator.
C5_UpdateFailed ==
    \E r \in Reqs :
        /\ Done(r) /\ handler[r].status = 500 /\ handler[r].msg = "Failed to update video"
        /\ ObjectOf(r) # {}
        /\ db[handler[r].videoID].VideoURL = Nil

\* The calls whose failure C6 is about.
ProcessingCalls == {"getVideoAspectRatio", "processVideoForFastStart", "PutObject"}

\* C6: when the probe, the remux or the put of a request fails, that is its
\* last call and it is answered 500: UpdateVideo is not called, and after a
\* failed probe or remux PutObject is not called; the failing step changes
\* neither the object store nor the metadata store.
C6_FailureBeforeUpdate ==
    /\ [](\A r \in Reqs : \A i \in 1..Len(handler[r].calls) :
            handler[r].calls[i].op \in ProcessingCalls /\ ~handler[r].calls[i].ok =>
                /\ i = Len(handler[r].calls)
                /\ Done(r) /\ handler[r].status = 500
                /\ CallsOf(r, "UpdateVideo") = {}
                /\ handler[r].calls[i].op # "PutObject" => CallsOf(r, "PutObject") = {})
    /\ [][\A r \in Reqs :
             /\ Stepped(r) /\ handler'[r].calls # <<>>
             /\ Last(handler'[r].calls).op \in ProcessingCalls
             /\ ~Last(handler'[r].calls).ok
             => db' = db /\ s3' = s3]_vars

\* Two answered requests: one whose probe or remux failed, one whose put
\* failed.
C6_EachFailure ==
    \E r \in Reqs, q \in Reqs :
        /\ Done(r) /\ Done(q) /\ r # q
        /\ handler[r].calls # <<>> /\ handler[q].calls # <<>>
        /\ Last(handler[r].calls) \in {[op |-> "getVideoAspectRatio", ok |-> FALSE],
                                       [op |-> "processVideoForFastStart", ok |-> FALSE]}
        /\ Last(handler[q].calls) = [op |-> "PutObject", ok |-> FALSE]
        /\ handler[q].status = 500

\* The media type request r declared for its video part, once it was read.
Declared(r) == handler[r].contentType[1]

\* C7 as stated: a request that declared another content type than the
\* string video/mp4 is answered with a 4xx status without side effect.
C7_OnlyExactStringPasses ==
    \A r \in Reqs :
        handler[r].contentType # Nil /\ Declared(r) # videoMP4 =>
            Done(r) /\ handler[r].status \in 400..499 /\ NoSideEffect(r)

\* C7: a request whose declared content type does not parse to the media
\* type video/mp4 (the type compared without case and without parameters)
\* is answered 415, or 400 when the content type does not parse, without side
\* effect; the validation itself changes nothing, and only a content type
\* that parses to video/mp4 goes on to the staging.
C7_OnlyMediaTypePasses ==
    /\ [](\A r \in Reqs :
            /\ handler[r].pc = "createTemp" => handler[r].contentType # Nil
            /\ handler[r].contentType # Nil =>
                  /\ NoSideEffect(r)
                  /\ LET mt == ParseMediaType(Declared(r))
                     IN  IF mt.err THEN Done(r) /\ handler[r].status = 400
                         ELSE IF mt.mediatype # videoMP4 THEN Done(r) /\ handler[r].status = 415
                         ELSE handler[r].pc = "createTemp")
    /\ [][\A r \in Reqs : Stepped(r) /\ handler'[r].contentType # Nil =>
             UNCHANGED <<disk, s3, db>>]_vars

\* A request that declared video/webm was answered 415 and one that declared
\* Video/MP4 with a parameter goes on to the staging.
C7_ParameterPasses ==
    \E r \in Reqs, q \in Reqs :
        /\ handler[r].contentType # Nil /\ handler[q].contentType # Nil
        /\ Done(r) /\ handler[r].status = 415
        /\ handler[q].pc = "createTemp" /\ Declared(q) # videoMP4

Classes == {landscape, portrait, other}
URLSafe == {Alphabet[i] : i \in 1..Len(Alphabet)}

\* C9: the object key of a request is <class>/<encoded>.mp4: class is the
\* aspect the probe gave for the streams of the staged file, one of
\* landscape, portrait, other, and encoded is the 43 characters, all of the
\* URL-safe alphabet, that encode the 32 random bytes of the request; the
\* key, the aspect and the random bytes of a request change in no later
\* step; two requests with different random bytes have different keys.
C9_KeyForm ==
    /\ [][\A r \in Reqs : version # "flat" /\ handler'[r].objectKey # handler[r].objectKey =>
            LET key   == handler'[r].objectKey
                class == handler'[r].aspect
                n     == Len(class)
                enc   == SubSeq(key, n + 2, Len(key) - 4)
            IN  /\ class \in Classes
                /\ SubSeq(key, 1, n) = class
                /\ key[n + 1] = "/"
                /\ Len(enc) = 43
                /\ \A i \in 1..Len(enc) : enc[i] \in URLSafe
                /\ Len(handler'[r].randomBytes) = 32
                /\ enc = EncodeToString(handler'[r].randomBytes)
                /\ SubSeq(key, Len(key) - 3, Len(key)) = <<".", "m", "p", "4">>]_vars
    /\ [](\A r \in Reqs, q \in Reqs :
            /\ handler[r].objectKey # <<>> /\ handler[q].objectKey # <<>>
            /\ handler[r].randomBytes # handler[q].randomBytes
            => handler[r].objectKey # handler[q].objectKey)
    /\ [][\A r \in Reqs : Stepped(r) /\ handler[r].pc = "probe" /\ ~Done(r)' =>
             handler'[r].aspect =
                 getVideoAspectRatio([run |-> TRUE, json |-> TRUE,
                                      streams |-> handler'[r].probed]).aspect]_vars
    /\ [][\A r \in Reqs : handler[r].objectKey # <<>> =>
             /\ handler'[r].objectKey = handler[r].objectKey
             /\ handler'[r].aspect = handler[r].aspect
             /\ handler'[r].randomBytes = handler[r].randomBytes
             /\ handler'[r].probed = handler[r].probed]_vars

\* Two requests of the same probed class built their keys from different
\* random bytes.
C9_TwoKeys ==
    \E r \in Reqs, q \in Reqs :
        /\ version = "aspect"
        /\ handler[r].objectKey # <<>> /\ handler[q].objectKey # <<>>
        /\ handler[r].aspect = portrait /\ handler[q].aspect = portrait
        /\ handler[r].randomBytes # handler[q].randomBytes

\* C3: in the version that signs, every request is answered, and when every
\* call of a request succeeded it is answered 200 with the URL signed for its
\* bucket and key; the
\* successful update stores the locator of the bucket and key under which the
\* request put its object; and dbVideoToSignedVideo of a stored record with a
\* locator gives, without error, a non-empty URL from one presign call for
\* the bucket and key of an object in the store, valid 15 minutes.
C3_HappyPathCommits ==
    /\ <>(\A r \in Reqs : Done(r))
    /\ [](\A r \in Reqs :
            /\ version = "signed" /\ Done(r) /\ handler[r].calls # <<>>
            /\ \A i \in 1..Len(handler[r].calls) : handler[r].calls[i].ok
            => /\ handler[r].status = 200
               /\ Last(handler[r].calls).op = "Presign"
               /\ handler[r].body.VideoURL =
                      Ptr(PresignedURL(s3Bucket, handler[r].objectKey, 15 * 60)))
    /\ [][\A r \in Reqs :
             /\ version = "signed" /\ Stepped(r)
             /\ handler[r].pc = "update" /\ Last(handler'[r].calls).ok
             => /\ db'[handler[r].videoID].VideoURL # Ptr(<<>>)
                /\ db'[handler[r].videoID].VideoURL =
                       Ptr(s3Bucket \o <<",">> \o handler[r].objectKey)
                /\ ObjectOf(r) # {}]_vars
    /\ [](\A id \in DOMAIN db : version = "signed" /\ db[id].VideoURL # Nil =>
            LET res == dbVideoToSignedVideo(db[id], TRUE)
            IN  /\ ~res.err
                /\ res.video.VideoURL # Nil
                /\ res.video.VideoURL[1] # <<>>
                /\ Len(res.presigned) = 1
                /\ res.presigned[1].expires = 15 * 60
                /\ \E o \in s3 : /\ o.bucket = res.presigned[1].bucket
                                 /\ o.key = res.presigned[1].key)

\* A request was answered 200 with a signed URL and the record holds the
\* locator of its object.
C3_Committed ==
    \E r \in Reqs :
        /\ version = "signed" /\ Done(r) /\ handler[r].status = 200
        /\ handler[r].body.VideoURL # Nil
        /\ db[handler[r].videoID].VideoURL = Ptr(Locator(s3Bucket, handler[r].objectKey))
        /\ ObjectOf(r) # {}

(***************************************************************************)
(* What the metadata store holds of a video.                               *)
(***************************************************************************)

\* s begins with prefix.
HasPrefix(s, prefix) == Len(s) >= Len(prefix) /\ SubSeq(s, 1, Len(prefix)) = prefix

\* C11: in the version that signs, a stored VideoURL is never a signed URL:
\* it is bucket,key of an object key of a request for that record, has no
\* query part and is the URL of no response; the signing step writes neither
\* store; and the URL of a 200 response is the one signed for the bucket and
\* key the request stored, with an expiry of 15 minutes.
C11_SignedURLNeverStored ==
    /\ [](\A id \in DOMAIN db : db[id].VideoURL # Nil =>
            /\ ~HasPrefix(db[id].VideoURL[1], <<"h", "t", "t", "p">>)
            /\ IndexOf(db[id].VideoURL[1], "?") = 0
            /\ \E r \in Reqs :
                  /\ handler[r].videoID = id
                  /\ db[id].VideoURL = Ptr(s3Bucket \o <<",">> \o handler[r].objectKey)
            /\ \A r \in Reqs : handler[r].body.VideoURL # db[id].VideoURL)
    /\ [][\A r \in Reqs : Stepped(r) /\ handler[r].pc = "sign" => db' = db /\ s3' = s3]_vars
    /\ [](\A r \in Reqs : Done(r) /\ handler[r].status = 200 =>
            /\ handler[r].video.VideoURL = Ptr(s3Bucket \o <<",">> \o handler[r].objectKey)
            /\ handler[r].body.VideoURL =
                   Ptr(PresignedURL(s3Bucket, handler[r].objectKey, 15 * 60))
            /\ handler[r].body.VideoURL # handler[r].video.VideoURL)

\* A request was answered 200 with a signed URL while the record holds the
\* locator of its object.
C11_SignedAnswerLocatorStored ==
    \E r \in Reqs :
        /\ Done(r) /\ handler[r].status = 200
        /\ HasPrefix(handler[r].body.VideoURL[1], <<"h", "t", "t", "p", "s">>)
        /\ db[handler[r].videoID].VideoURL = handler[r].video.VideoURL
        /\ db[handler[r].videoID].VideoURL # handler[r].body.VideoURL

(***************************************************************************)
(* The stored locator read back.                                           *)
(***************************************************************************)

\* The bucket and key dbVideoToSignedVideo asked a signed URL for are those
\* the locator was written from.
ReadBack ==
    /\ ~unit.res.err
    /\ Len(unit.res.presigned) = 1
    /\ unit.res.presigned[1].bucket = unit.bucket
    /\ unit.res.presigned[1].key = unit.key

\* C12 as stated: for every bucket and every key, the split of the stored
\* string bucket,key gives the bucket and the key back.
C12_RoundTrip == unit.op = "locator" => ReadBack

\* C12: the split of the stored string bucket,key gives the bucket and the
\* key back exactly when the bucket holds no comma, whatever the key holds.
C12_RoundTripWithoutComma ==
    unit.op = "locator" => (ReadBack <=> IndexOf(unit.bucket, ",") = 0)

\* A key with a comma was read back from the locator of a bucket without.
C12_KeyWithCommaReadBack ==
    /\ unit.op = "locator"
    /\ unit.bucket # <<>> /\ IndexOf(unit.bucket, ",") = 0
    /\ IndexOf(unit.key, ",") > 1
    /\ ReadBack

(***************************************************************************)
(* The order of the pipeline.                                              *)
(***************************************************************************)

\* The calls of a request that went through, in their order: the file is
\* staged with the third, probed with the fourth, remuxed with the fifth,
\* uploaded with the seventh and committed with the eighth.
CallOrder ==
    <<"CreateTemp", "Copy", "Seek", "getVideoAspectRatio", "processVideoForFastStart",
      "rand", "PutObject", "UpdateVideo", "Presign">>

\* The calls that may fail in the place of the sixth.
OpenCalls == {"Open", "Seek", "rand"}

\* C13: in the versions that probe, the calls of a request are made in the
\* order staging, probe, remux, put, update, none skipped and none made
\* twice, each only after the one before it succeeded; a failed call is the
\* last one and the request is answered; the object store changes only in a
\* step that logs a successful put and the metadata store only in one that
\* logs a successful update; a request that is not answered can fail in its
\* next step; an answered request takes no further step.
C13_StatesInOrder ==
    /\ [](\A r \in Reqs : version # "flat" =>
            /\ Len(handler[r].calls) <= Len(CallOrder)
            /\ \A i \in 1..Len(handler[r].calls) :
                  LET call == handler[r].calls[i]
                  IN  /\ call.ok => call.op = CallOrder[i]
                      /\ ~call.ok => /\ i = Len(handler[r].calls) /\ Done(r)
                                     /\ \/ call.op = CallOrder[i]
                                        \/ i = 6 /\ call.op \in OpenCalls)
    /\ [](\A r \in Reqs : ~Done(r) =>
            ENABLED (Step(r) /\ Done(r)' /\ handler'[r].status >= 400))
    /\ [][\A r \in Reqs : Done(r) => handler'[r] = handler[r]]_vars
    /\ [][s3' # s3 => \E r \in Reqs :
             handler'[r].calls = Append(handler[r].calls, [op |-> "PutObject", ok |-> TRUE])]_vars
    /\ [][db' # db => \E r \in Reqs :
             handler'[r].calls = Append(handler[r].calls, [op |-> "UpdateVideo", ok |-> TRUE])]_vars
    /\ [][\A r \in Reqs : disk' # disk /\ Stepped(r) =>
             \/ Len(handler'[r].calls) > Len(handler[r].calls)
             \/ Done(r)']_vars

\* A request went through staging, probe, remux, put and update and was
\* answered 200.
C13_WentThrough ==
    \E r \in Reqs :
        /\ version = "aspect" /\ Done(r) /\ handler[r].status = 200
        /\ [i \in 1..Len(handler[r].calls) |-> handler[r].calls[i].op] = SubSeq(CallOrder, 1, 8)

(***************************************************************************)
(* The object a request puts.                                              *)
(***************************************************************************)

\* The step of r is its PutObject call and the call went through.
PutBy(r) == handler'[r].calls = Append(handler[r].calls, [op |-> "PutObject", ok |-> TRUE])

\* The object store after r put an object of this body.
StoredAs(r, body) ==
    s3' = PutObject(s3, s3Bucket, handler[r].objectKey, body, videoMP4)

\* The puts a request made or tried.
Puts(r) == {i \in 1..Len(handler[r].calls) : handler[r].calls[i].op = "PutObject"}

IsVideo(stream) == stream.codec_type = "video"

\* The list of just the first video stream of streams, empty when there is none.
FirstVideoOnly(streams) ==
    LET videos == SelectSeq(streams, IsVideo)
    IN  IF videos = <<>> THEN <<>> ELSE <<Head(videos)>>

\* The probe ran and its output was read.
ProbeRead == unit.op = "getVideoAspectRatio" /\ unit.probe.run /\ unit.probe.json

\* C15: the result of the probe is the one it gives on the list of just the
\* first video stream: the streams before it that are not video and all
\* streams after it change nothing, so that two lists with the same first
\* video stream have the same result.
C15_FirstVideoStreamDecides ==
    ProbeRead =>
        unit.res = getVideoAspectRatio([unit.probe EXCEPT !.streams = FirstVideoOnly(@)])

\* The probe read a list with an audio stream first and two video streams of
\* different orientation, and classified by the first of the two.
C15_SecondVideoIgnored ==
    /\ ProbeRead
    /\ unit.probe.streams = <<Stream("audio", 0, 0), Stream("video", 9, 16), Stream("video", 16, 9)>>
    /\ unit.res = [err |-> "", aspect |-> portrait]

\* C16 as stated: when no stream of the output has both a positive width and
\* a positive height, the probe fails with "no video stream found".
C16_NoPositiveGeometryFails ==
    (/\ ProbeRead
     /\ \A i \in 1..Len(unit.probe.streams) :
           ~(unit.probe.streams[i].width > 0 /\ unit.probe.streams[i].height > 0))
    => unit.res.err = "no video stream found"

(***************************************************************************)
(* No call is made again.                                                  *)
(***************************************************************************)

\* The calls out of the process: ffprobe, ffmpeg, the object store and the
\* metadata store.
ExternalCalls == {"getVideoAspectRatio", "processVideoForFastStart", "PutObject", "UpdateVideo"}

\* An external call of r has failed.
ExternalFailed(r) ==
    \E i \in 1..Len(handler[r].calls) :
        handler[r].calls[i].op \in ExternalCalls /\ ~handler[r].calls[i].ok

\* C17: a request makes each external call at most once; when one fails the
\* request is answered 500 in that step, which changes neither store, and the
\* request makes no call afterwards.
C17_NoRetry ==
    /\ [](\A r \in Reqs : \A op \in ExternalCalls : Cardinality(CallsOf(r, op)) <= 1)
    /\ [](\A r \in Reqs : ExternalFailed(r) =>
            /\ ~Last(handler[r].calls).ok
            /\ handler[r].pc = "done" /\ handler[r].status = 500)
    /\ [][\A r \in Reqs : ~ExternalFailed(r) /\ ExternalFailed(r)' => s3' = s3 /\ db' = db]_vars
    /\ [][\A r \in Reqs : ExternalFailed(r) =>
             handler'[r].calls = handler[r].calls /\ handler'[r].pc = "done"]_vars

\* The put of a request failed after its probe and its remux went through:
\* the request is answered and has called each of the three once.
C17_PutFailedOnce ==
    \E r \in Reqs :
        /\ handler[r].pc = "done" /\ handler[r].status = 500
        /\ handler[r].calls # <<>>
        /\ Last(handler[r].calls) = [op |-> "PutObject", ok |-> FALSE]
        /\ Cardinality(CallsOf(r, "getVideoAspectRatio")) = 1
        /\ Cardinality(CallsOf(r, "processVideoForFastStart")) = 1
        /\ CallsOf(r, "UpdateVideo") = {}

(***************************************************************************)
(* Cancelled requests.                                                     *)
(***************************************************************************)

\* The step of r is its UpdateVideo call and the call went through.
UpdateBy(r) == handler'[r].calls = Append(handler[r].calls, [op |-> "UpdateVideo", ok |-> TRUE])

\* C18 as stated: once the context of a request is done, the request puts
\* no object and updates no record, and both stores stay as they are in its
\* steps.
C18_NothingAfterCancel ==
    [][\A r \in Reqs : handler[r].ctxDone /\ Stepped(r) =>
          /\ ~PutBy(r) /\ ~UpdateBy(r)
          /\ s3' = s3 /\ db' = db]_vars

(***************************************************************************)
(* Two requests side by side.                                              *)
(***************************************************************************)

\* The temp paths a request holds while it is in flight.
TempPaths(r) ==
    IF Done(r) THEN {}
    ELSE {handler[r].tempFile, handler[r].processedPath} \ {""}

\* Requests in flight hold different temp paths.
TempPathsDisjoint ==
    \A r, q \in Reqs : r # q => TempPaths(r) \cap TempPaths(q) = {}

\* A step of one request leaves the files of the other as they are.
OwnFilesOnly ==
    \A r \in Reqs : Stepped(r) =>
        \A path \in DOMAIN disk : disk[path].from # r =>
            path \in DOMAIN disk' /\ disk'[path] = disk[path]

\* ffmpeg can write its output for a request that is about to remux, as it
\* can for a request that is alone on the server.
RemuxCanSucceed ==
    \A r \in Reqs : handler[r].pc = "remux" =>
        OutputPath(handler[r].tempFile) \notin DOMAIN disk

\* The locator of a record is the one of an object that a request for this
\* record has put.
LocatorOfOnePut ==
    \A id \in DOMAIN db : db[id].VideoURL # Nil =>
        \E r \in Reqs :
            /\ handler[r].videoID = id
            /\ ObjectOf(r) # {}
            /\ db[id].VideoURL = Ptr(VideoURL(handler[r].objectKey))

\* C19 as stated: under every interleaving of two requests their temp paths
\* are disjoint, no request changes or removes a file of the other, each
\* request can reach the outcome it reaches alone, and a committed locator
\* is the key of an object one of the requests put.
C19_RequestsIsolated ==
    /\ []TempPathsDisjoint
    /\ [][OwnFilesOnly]_vars
    /\ []RemuxCanSucceed
    /\ []LocatorOfOnePut

(***************************************************************************)
(* Thumbnail uploads of users who do not own the record.                   *)
(***************************************************************************)

\* C20 as stated: in every version of handlerUploadThumbnail a request of a
\* user who does not own the record changes nothing: none of its steps
\* creates or overwrites a file, writes the in-memory map or updates a
\* record, and it is never answered 200.
C20_NonOwnerNoSideEffect ==
    /\ [][\A r \in Reqs : NonOwner(r) /\ Stepped(r) =>
             /\ disk' = disk
             /\ videoThumbnails' = videoThumbnails
             /\ db' = db]_vars
    /\ [](\A r \in Reqs : NonOwner(r) /\ Done(r) => handler[r].status # 200)

(***************************************************************************)
(* Stored locators and the objects they name.                              *)
(***************************************************************************)

\* The keys under which the bucket holds an object.
PutKeys == {o.key : o \in {x \in s3 : x.bucket = s3Bucket}}

\* The PutObject call of r went through.
PutSucceeded(r) ==
    \E i \in 1..Len(handler[r].calls) : handler[r].calls[i] = [op |-> "PutObject", ok |-> TRUE]

\* C21: every locator in the metadata store names a key under which the
\* bucket holds an object; the locator of a record changes only in the
\* update step of a request for that record whose put went through before,
\* and it becomes the locator of the key of that put.
C21_LocatorNamesPutObject ==
    /\ [](\A id \in DOMAIN db : db[id].VideoURL # Nil =>
            \E key \in PutKeys : db[id].VideoURL = Ptr(VideoURL(key)))
    /\ [][\A id \in DOMAIN db : db'[id].VideoURL # db[id].VideoURL =>
             \E r \in Reqs :
                /\ UpdateBy(r)
                /\ handler[r].videoID = id
                /\ PutSucceeded(r)
                /\ handler[r].objectKey \in PutKeys
                /\ db'[id].VideoURL = Ptr(VideoURL(handler[r].objectKey))]_vars
    /\ [](\A r \in Reqs : ~PutSucceeded(r) => CallsOf(r, "UpdateVideo") = {})

\* One request committed its locator and the put of the other failed: the
\* record names the key of the first.
C21_OneCommittedOneFailed ==
    \E r, q \in Reqs :
        /\ r # q
        /\ Done(r) /\ handler[r].status = 200 /\ PutSucceeded(r)
        /\ db[handler[r].videoID].VideoURL = Ptr(VideoURL(handler[r].objectKey))
        /\ Done(q) /\ handler[q].videoID = handler[r].videoID
        /\ handler[q].calls # <<>>
        /\ Last(handler[q].calls) = [op |-> "PutObject", ok |-> FALSE]

(***************************************************************************)
(* Requests answered with an error.                                        *)
(***************************************************************************)

\* The UpdateVideo call of r went through: r wrote its record.
UpdateSucceeded(r) ==
    \E i \in 1..Len(handler[r].calls) : handler[r].calls[i] = [op |-> "UpdateVideo", ok |-> TRUE]

\* C22 as stated: a request answered with a status other than 200 has not
\* written the record, and the step that answers it leaves the metadata
\* store as it is.
C22_ErrorLeavesRecord ==
    /\ [](\A r \in Reqs : Done(r) /\ handler[r].status # 200 => ~UpdateSucceeded(r))
    /\ [][\A r \in Reqs : Stepped(r) /\ Done(r)' /\ handler'[r].status # 200 => db' = db]_vars

(***************************************************************************)
(* A video and a thumbnail for the same record.                            *)
(***************************************************************************)

\* The video upload and the thumbnail upload were for the same record and
\* both were answered 200.
BothAnswered200 ==
    /\ Done(VideoReq) /\ handler[VideoReq].status = 200
    /\ Done(ThumbReq) /\ handler[ThumbReq].status = 200
    /\ handler[VideoReq].videoID = handler[ThumbReq].videoID

\* C23 as stated: when a video upload and a thumbnail upload for the same
\* record were both answered 200, the record carries the locator of the
\* video upload and the thumbnail URL of the thumbnail upload.
C23_BothFieldsKept ==
    BothAnswered200 =>
        LET video == db[handler[VideoReq].videoID]
        IN  /\ video.VideoURL = Ptr(VideoURL(handler[VideoReq].objectKey))
            /\ video.ThumbnailURL = Ptr(ThumbnailURL(handler[ThumbReq]))

====
